---- MODULE Spec2Model ----
(***************************************************************************)
(* The Modbus master of node-modbus-serial: the transaction engine         *)
(* (ModbusRTU: writeFC1..writeFC16 and the port 'data' handler), its       *)
(* checksum primitives and its response decoders; and the buffered ASCII   *)
(* port (AsciiBufferedPort: write and the client 'data' handler) with its  *)
(* hex transcoding.                                                        *)
(*                                                                         *)
(* Reading of the writeFCn bodies.  Every writeFCn sizes the expected      *)
(* answer and the request buffer with the text                             *)
(*     if( this._ascii === false ) { X = rtu; } else {}                    *)
(*         X = ascii;                                                      *)
(*     }                                                                   *)
(* The else block is empty, so the assignment after it is not guarded by   *)
(* the mode: it runs in every mode and overwrites what the if-branch set.  *)
(* The closing brace that follows has no opening brace; the statements of  *)
(* each function are modelled in their textual order.                      *)
(***************************************************************************)
EXTENDS Integers, Sequences, FiniteSets, TLC

\* Bounds of the exploration.
MaxRequests == 2
MaxChunks == 2
MaxLineBytes == 34

\* JavaScript null (no byte, no continuation).
Null == -1

\* this._ascii is never set by the constructor (undefined); the connection
\* layer may set it to false (RTU) or true (ASCII).
Modes == {"undefined", "false", "true"}

\* Arguments the callers pass.
Addrs == {1}
DataAddrs == {1}
BitCounts == {8, 9}
RegCounts == {1, 2}
CodeArgs == {0, 7}
CoilStates == {TRUE, FALSE}
RegValue(i) == 10 + 248 * (i - 1)
RegArrays == {[i \in 1..n |-> RegValue(i)] : n \in RegCounts}
RegWords == {RegValue(2)}

VARIABLES
    ascii,        \* this._ascii
    nextAddress,  \* this._nextAddress
    nextCode,     \* this._nextCode
    nextLength,   \* this._nextLength
    next,         \* this._next: the continuation of the pending request
    written,      \* the buffer handed to this._port.write by the last request
    request,      \* the arguments of the last writeFCn call
    errors,       \* times the continuation of the last request was called
                  \* with an error
    results,      \* times it was called with a result
    delivered,    \* the continuation calls the last operation made
    chunk,        \* the bytes the port delivered, when the last operation
                  \* was a 'data' event
    data,         \* the same buffer after the 'data' handler has run
    outcome,      \* how the last operation ended
    issued,       \* number of writeFCn calls so far
    received,     \* number of 'data' events so far
    portBuffer,   \* AsciiBufferedPort: this._buffer
    portId,       \* this._id
    portCmd,      \* this._cmd
    portLength,   \* this._length
    raw,          \* the buffer given to the last AsciiBufferedPort write
    encoded,      \* the buffer that write handed to this._client.write
    asked,        \* the request the last write carried
    stream,       \* the bytes the serial line delivers after the last write
    pos,          \* how many of them the client has delivered
    chunking,     \* how they were cut into 'data' events so far
    leftover,     \* this._buffer as the last write found it
    emitted,      \* the frames emitted since the last write, in order
    scan,         \* what the last client 'data' event did
    lineBytes,    \* the bytes the serial line was given to deliver so far
    hexWrite      \* what the runtime's Buffer.write(.., 'hex') does with a
                  \* pair that is not hexadecimal

engineVars ==
    <<ascii, nextAddress, nextCode, nextLength, next, written, request,
      errors, results, delivered, chunk, data, outcome, issued, received>>

portVars ==
    <<portBuffer, portId, portCmd, portLength, raw, encoded, asked, stream,
      pos, chunking, leftover, emitted, scan, lineBytes, hexWrite>>

vars == <<engineVars, portVars>>

engine == <<nextAddress, nextCode, nextLength, next>>

----------------------------------------------------------------------------
\* Integer and Buffer primitives.

RECURSIVE Xor(_, _)
Xor(a, b) ==
    IF a = 0 THEN b
    ELSE IF b = 0 THEN a
    ELSE (((a % 2) + (b % 2)) % 2) + 2 * Xor(a \div 2, b \div 2)

\* buf[i] of JavaScript (0-based); out of range reads undefined, which the
\* bitwise operators take as 0.
ByteAt(buf, i) == IF i >= 0 /\ i < Len(buf) THEN buf[i + 1] ELSE 0

\* The bounds check of Buffer.readUIntN / writeUIntN (noAssert not given).
InRange(buf, offset, n) == offset >= 0 /\ offset + n <= Len(buf)

ReadUInt16BE(buf, offset) == 256 * buf[offset + 1] + buf[offset + 2]
ReadUInt16LE(buf, offset) == buf[offset + 1] + 256 * buf[offset + 2]

WriteUInt8(buf, value, offset) ==
    [i \in 1..Len(buf) |-> IF i = offset + 1 THEN value % 256 ELSE buf[i]]

WriteUInt16LE(buf, value, offset) ==
    [i \in 1..Len(buf) |->
        IF i = offset + 1 THEN value % 256
        ELSE IF i = offset + 2 THEN (value \div 256) % 256
        ELSE buf[i]]

Slice(buf, from, to) ==
    LET t == IF to > Len(buf) THEN Len(buf) ELSE to
    IN  IF from >= t THEN <<>> ELSE [i \in 1..(t - from) |-> buf[from + i]]

Hi(w) == (w \div 256) % 256
Lo(w) == w % 256

----------------------------------------------------------------------------
\* Checksums.

CRC16Shift(crc) ==
    IF crc % 2 = 1 THEN Xor(crc \div 2, 40961) ELSE crc \div 2

RECURSIVE CRC16Bits(_, _)
CRC16Bits(crc, j) == IF j = 0 THEN crc ELSE CRC16Bits(CRC16Shift(crc), j - 1)

\* The outer loop.  The register is a value before the next byte is taken
\* (the test on it only fixes that evaluation order; it is never negative).
RECURSIVE CRC16Loop(_, _, _, _)
CRC16Loop(buf, i, length, crc) ==
    IF i >= length THEN crc
    ELSE LET shifted == CRC16Bits(Xor(crc, ByteAt(buf, i)), 8)
         IN  IF shifted >= 0 THEN CRC16Loop(buf, i + 1, length, shifted)
             ELSE 0

\* The value _CRC16 returns.
CRC16(buf, length) == CRC16Loop(buf, 0, length, 65535)

\* _CRC16 also stores the value after the covered bytes; the store throws
\* when it does not fit.
CRC16Throws(buf, length) == ~InRange(buf, length, 2)
CRC16Buf(buf, length) == WriteUInt16LE(buf, CRC16(buf, length), length)

RECURSIVE LRCSum(_, _, _)
LRCSum(buf, i, length) ==
    IF i >= length THEN 0 ELSE ByteAt(buf, i) + LRCSum(buf, i + 1, length)

LRCOnesComplement(buf, length) == Xor(LRCSum(buf, 0, length) % 256, 255)

\* The value _LRC returns: ((lrc ^ 0xFF) + 1) & 0xFF.
LRC(buf, length) == (Xor(LRCSum(buf, 0, length), 255) + 1) % 256

LRCThrows(buf, length) == ~InRange(buf, length, 1)
LRCBuf(buf, length) == WriteUInt8(buf, LRC(buf, length), length)

----------------------------------------------------------------------------
\* Response decoders.

NoResult ==
    [shape |-> "none", bits |-> <<>>, regs |-> <<>>, buffer |-> <<>>,
     address |-> 0, state |-> FALSE, value |-> 0, length |-> 0]

\* A decoder throws, or calls next(null, res); the handler may also end
\* without either.
Threw == [threw |-> TRUE, called |-> FALSE, res |-> NoResult]
Returned(res) == [threw |-> FALSE, called |-> TRUE, res |-> res]
Silent == [threw |-> FALSE, called |-> FALSE, res |-> NoResult]

RegBitsHighFirst(reg) == [j \in 1..8 |-> (reg \div (2 ^ (8 - j))) % 2 = 1]

\* The inner loop of _readFC2: eight pushes of (reg & 1) == 1, reg >>= 1.
RegBits(reg) == [j \in 1..8 |-> (reg \div (2 ^ (j - 1))) % 2 = 1]

RECURSIVE ReadFC2Loop(_, _, _)
ReadFC2Loop(buf, i, length) ==
    IF i >= length THEN <<>>
    ELSE RegBits(ByteAt(buf, i + 3)) \o ReadFC2Loop(buf, i + 1, length)

ReadFC2(buf) ==
    IF ~InRange(buf, 2, 1) THEN Threw
    ELSE LET length == buf[3]
         IN  Returned([NoResult EXCEPT !.shape = "bits",
                                       !.bits = ReadFC2Loop(buf, 0, length),
                                       !.buffer = Slice(buf, 3, 3 + length)])

\* The loop of _readFC4; "throw" when readUInt16BE leaves the buffer.
RECURSIVE ReadFC4Loop(_, _, _)
ReadFC4Loop(buf, i, length) ==
    IF i >= length THEN [threw |-> FALSE, regs |-> <<>>]
    ELSE IF ~InRange(buf, i + 3, 2) THEN [threw |-> TRUE, regs |-> <<>>]
    ELSE LET rest == ReadFC4Loop(buf, i + 2, length)
         IN  [threw |-> rest.threw,
              regs |-> <<ReadUInt16BE(buf, i + 3)>> \o rest.regs]

ReadFC4(buf) ==
    IF ~InRange(buf, 2, 1) THEN Threw
    ELSE LET length == buf[3]
             loop == ReadFC4Loop(buf, 0, length)
         IN  IF loop.threw THEN Threw
             ELSE Returned([NoResult EXCEPT !.shape = "regs",
                                            !.regs = loop.regs,
                                            !.buffer = Slice(buf, 3, 3 + length)])

ReadFC5(buf) ==
    IF ~InRange(buf, 2, 2) \/ ~InRange(buf, 4, 2) THEN Threw
    ELSE Returned([NoResult EXCEPT !.shape = "coil",
                                   !.address = ReadUInt16BE(buf, 2),
                                   !.state = (ReadUInt16BE(buf, 4) = 65280)])

ReadFC6(buf) ==
    IF ~InRange(buf, 2, 2) \/ ~InRange(buf, 4, 2) THEN Threw
    ELSE Returned([NoResult EXCEPT !.shape = "register",
                                   !.address = ReadUInt16BE(buf, 2),
                                   !.value = ReadUInt16BE(buf, 4)])

ReadFC16(buf) ==
    IF ~InRange(buf, 2, 2) \/ ~InRange(buf, 4, 2) THEN Threw
    ELSE Returned([NoResult EXCEPT !.shape = "registers",
                                   !.address = ReadUInt16BE(buf, 2),
                                   !.length = ReadUInt16BE(buf, 4)])

\* The chain of "if (code == ...)" that ends the 'data' handler; a code
\* that matches none of the tests falls through all of them.
Parse(code, buf) ==
    IF code = 2 \/ code = 1 THEN ReadFC2(buf)
    ELSE IF code = 4 \/ code = 3 THEN ReadFC4(buf)
    ELSE IF code = 5 THEN ReadFC5(buf)
    ELSE IF code = 6 THEN ReadFC6(buf)
    ELSE IF code = 16 THEN ReadFC16(buf)
    ELSE Silent

----------------------------------------------------------------------------
\* Request encoders (writeFC1 .. writeFC16).

\* parseInt((length - 1) / 8 + 1): the integer part of the quotient.
ParseIntBytes(length) == IF length >= 1 THEN (length - 1) \div 8 + 1 ELSE 0

\* this._nextLength as each writeFCn leaves it.  The if-branch stores the
\* RTU length when _ascii === false; the statement after the empty else
\* block then stores the other length whatever the mode.
NextLengthFC2(mode, length) ==
    LET inIf == 3 + ParseIntBytes(length) + 2
        afterElse == 3 + ParseIntBytes(length) + 1
    IN  afterElse

NextLengthFC4Binary(mode, length) == 3 + 2 * length + 2

NextLengthFC4(mode, length) ==
    LET inIf == 3 + 2 * length + 2
        afterElse == 3 + 2 * length + 1
    IN  afterElse

NextLengthFC5(mode) ==
    LET inIf == 8
        afterElse == 7
    IN  afterElse

NextLengthFC6(mode) ==
    LET inIf == 8
        afterElse == 7
    IN  afterElse

NextLengthFC16(mode) ==
    LET inIf == 8
        afterElse == 7
    IN  afterElse

\* The size of the request buffer: "var buf" is declared twice, and the
\* second new Buffer(codeLength + 1) is the one that stays.
RequestBufferSize(mode, codeLength) ==
    LET inIf == codeLength + 2
        afterElse == codeLength + 1
    IN  afterElse

\* new Buffer(size) followed by the writes of the core bytes.  Every byte of
\* the buffer is written before the buffer leaves the function.
NewBuffer(size, core) ==
    [i \in 1..size |-> IF i <= Len(core) THEN core[i] ELSE 0]

\* address, code, dataAddress (big endian), second word (big endian).
Core6(address, code, dataAddress, word) ==
    <<address % 256, code % 256, Hi(dataAddress), Lo(dataAddress),
      Hi(word), Lo(word)>>

RegBytes(array) ==
    [i \in 1..(2 * Len(array)) |->
        IF i % 2 = 1 THEN Hi(array[(i + 1) \div 2]) ELSE Lo(array[i \div 2])]

CoreFC16(address, dataAddress, array) ==
    Core6(address, 16, dataAddress, Len(array))
        \o <<(2 * Len(array)) % 256>> \o RegBytes(array)

\* "if( this._ascii === true ) _CRC16(buf, codeLength) else _LRC(...)".
AddChecksum(mode, buf, codeLength) ==
    IF mode = "true"
    THEN IF CRC16Throws(buf, codeLength)
         THEN [threw |-> TRUE, buf |-> buf]
         ELSE [threw |-> FALSE, buf |-> CRC16Buf(buf, codeLength)]
    ELSE IF LRCThrows(buf, codeLength)
         THEN [threw |-> TRUE, buf |-> buf]
         ELSE [threw |-> FALSE, buf |-> LRCBuf(buf, codeLength)]

NoRequest == [fn |-> "none", fc |-> 0, unit |-> 0, start |-> 0, count |-> 0,
              values |-> <<>>]

\* The part every writeFCn shares: set the state variables, build the
\* buffer, add the checksum, write to the port.  The state variables are
\* assigned before anything can throw.
Send(req, expLength, core) ==
    /\ issued < MaxRequests
    /\ LET buf == NewBuffer(RequestBufferSize(ascii, Len(core)), core)
           sum == AddChecksum(ascii, buf, Len(core))
       IN  /\ nextAddress' = req.unit
           /\ nextCode' = req.fc
           /\ nextLength' = expLength
           /\ next' = issued + 1
           /\ written' = IF sum.threw THEN <<>> ELSE sum.buf
           /\ outcome' = IF sum.threw THEN "throw" ELSE "written"
    /\ request' = req
    /\ issued' = issued + 1
    /\ errors' = 0
    /\ results' = 0
    /\ delivered' = <<>>
    /\ chunk' = <<>>
    /\ data' = <<>>
    /\ UNCHANGED <<ascii, received>>
    /\ UNCHANGED portVars

\* "if (!code) code = 2".
DefaultCode(code, default) == IF code = 0 THEN default ELSE code

\* The record of a call: the function, the code it sends, the unit, the
\* data address, the second word of the frame and the register values.
Request(fn, code, address, dataAddress, word, array) ==
    [fn |-> fn, fc |-> code, unit |-> address, start |-> dataAddress,
     count |-> word, values |-> array]

CoilWord(state) == IF state THEN 65280 ELSE 0

CallFC2(address, dataAddress, length, code) ==
    LET c == DefaultCode(code, 2)
    IN  Send(Request("FC2", c, address, dataAddress, length, <<>>),
             NextLengthFC2(ascii, length),
             Core6(address, c, dataAddress, length))

CallFC4(address, dataAddress, length, code) ==
    LET c == DefaultCode(code, 4)
    IN  Send(Request("FC4", c, address, dataAddress, length, <<>>),
             NextLengthFC4(ascii, length),
             Core6(address, c, dataAddress, length))

WriteFC1 ==
    \E address \in Addrs, dataAddress \in DataAddrs, length \in BitCounts :
        CallFC2(address, dataAddress, length, 1)

WriteFC2 ==
    \E address \in Addrs, dataAddress \in DataAddrs, length \in BitCounts,
       code \in CodeArgs :
        CallFC2(address, dataAddress, length, code)

WriteFC3 ==
    \E address \in Addrs, dataAddress \in DataAddrs, length \in RegCounts :
        CallFC4(address, dataAddress, length, 3)

WriteFC4 ==
    \E address \in Addrs, dataAddress \in DataAddrs, length \in RegCounts,
       code \in CodeArgs :
        CallFC4(address, dataAddress, length, code)

WriteFC5 ==
    \E address \in Addrs, dataAddress \in DataAddrs, state \in CoilStates :
        Send(Request("FC5", 5, address, dataAddress, CoilWord(state), <<>>),
             NextLengthFC5(ascii),
             Core6(address, 5, dataAddress, CoilWord(state)))

WriteFC6 ==
    \E address \in Addrs, dataAddress \in DataAddrs, value \in RegWords :
        Send(Request("FC6", 6, address, dataAddress, value, <<>>),
             NextLengthFC6(ascii),
             Core6(address, 6, dataAddress, value))

WriteFC16 ==
    \E address \in Addrs, dataAddress \in DataAddrs, array \in RegArrays :
        Send(Request("FC16", 16, address, dataAddress, Len(array), array),
             NextLengthFC16(ascii),
             CoreFC16(address, dataAddress, array))

----------------------------------------------------------------------------
\* The port 'data' handler registered by open().

Idle == next = Null /\ nextAddress = Null /\ nextCode = Null

\* "if (data.length != length)".
LengthMismatch(buf, length) == Len(buf) # length

IdentityMismatchAddressOnly(address, code, expAddress, expCode) ==
    address # expAddress

\* "if (address != modbus._nextAddress || code != modbus._nextCode)".
IdentityMismatch(address, code, expAddress, expCode) ==
    address # expAddress \/ code # expCode

\* crcIn / lrcIn: the checksum the buffer carries.
ChecksumIn(mode, buf, length) ==
    IF mode = "false"
    THEN ReadUInt16LE(buf, length - 2)
    ELSE buf[Len(buf)]

\* crc / lrc: the checksum computed over the buffer, CRC16 over length - 2
\* bytes when _ascii === false, LRC over data.length - 1 bytes otherwise.
Checksum(mode, buf, length) ==
    IF mode = "false"
    THEN CRC16(buf, length - 2)
    ELSE LRC(buf, Len(buf) - 1)

ChecksumMismatchNever(sumIn, sum) == FALSE

\* "if (crcIn != crc)", "if (lrcIn != lrc)".
ChecksumMismatch(sumIn, sum) == sumIn # sum

\* _CRC16 and _LRC store what they computed into the buffer they check.
ChecksumBuf(mode, buf, length, sum) ==
    IF mode = "false"
    THEN WriteUInt16LE(buf, sum, length - 2)
    ELSE WriteUInt8(buf, sum, Len(buf) - 1)

ChecksumError(mode) == IF mode = "false" THEN "CRC error" ELSE "LRC error"

NotifyUnguarded(cont, err, res) ==
    <<[cont |-> cont, err |-> err, res |-> res]>>

\* "if (next) next(error)" and "if (next) next(null, res)".
Notify(cont, err, res) ==
    IF cont # Null THEN <<[cont |-> cont, err |-> err, res |-> res]>> ELSE <<>>

Handled(what, clear, called, buf) ==
    [outcome |-> what, clear |-> clear, calls |-> called, data |-> buf]

\* The handler on one buffer: how it ends, whether it cleared the state
\* variables, the continuation calls it made and the buffer as it leaves it.
OnData(buf) ==
    LET length == nextLength
        cont == next
    IN  IF LengthMismatch(buf, length)
        THEN Handled("length", FALSE,
                     Notify(cont, "Data length error", NoResult), buf)
        ELSE IF ~InRange(buf, 0, 1) \/ ~InRange(buf, 1, 1)
        THEN Handled("throw", FALSE, <<>>, buf)
        ELSE LET address == buf[1]
                 code == buf[2]
             IN  IF IdentityMismatch(address, code, nextAddress, nextCode)
                 THEN Handled("identity", FALSE,
                              Notify(cont, "Unexpected data error", NoResult),
                              buf)
                 ELSE LET sumIn == ChecksumIn(ascii, buf, length)
                          sum == Checksum(ascii, buf, length)
                          checked == ChecksumBuf(ascii, buf, length, sum)
                      IN  IF ChecksumMismatch(sumIn, sum)
                          THEN Handled("checksum", TRUE,
                                       Notify(cont, ChecksumError(ascii),
                                              NoResult),
                                       checked)
                          ELSE LET p == Parse(code, checked)
                               IN  Handled(IF p.threw THEN "throw"
                                           ELSE IF p.called THEN "decoded"
                                           ELSE "ignored",
                                           TRUE,
                                           IF p.called
                                           THEN Notify(cont, "", p.res)
                                           ELSE <<>>,
                                           checked)

----------------------------------------------------------------------------
\* What the port delivers: the slave's answer to the last request, as an RTU
\* frame or as the frame an ASCII port has decoded, intact or damaged on the
\* line, and stray bytes.

PayloadByte(i) == (5 + 124 * (i - 1)) % 256

ResponseCore(req) ==
    IF req.fn = "FC2"
    THEN LET n == (req.count + 7) \div 8
         IN  <<req.unit, req.fc, n>> \o [i \in 1..n |-> PayloadByte(i)]
    ELSE IF req.fn = "FC4"
    THEN <<req.unit, req.fc, 2 * req.count>>
             \o RegBytes([i \in 1..req.count |-> RegValue(i)])
    ELSE Core6(req.unit, req.fc, req.start, req.count)

WithCRC(core) ==
    LET crc == CRC16(core, Len(core)) IN core \o <<Lo(crc), Hi(crc)>>

WithLRC(core) == core \o <<LRC(core, Len(core))>>

Damaged(frame) ==
    [frame EXCEPT ![Len(frame)] = (frame[Len(frame)] + 1) % 256]

Readdressed(core) == [core EXCEPT ![1] = IF core[1] = 1 THEN 17 ELSE 1]

Recoded(core) == [core EXCEPT ![2] = IF core[2] = 3 THEN 4 ELSE 3]

CutShort(core) == SubSeq(core, 1, Len(core) - 1)

StrayChunks == {<<>>, WithLRC(<<1, 3, 2, 0, 10>>)}

Answers(req) ==
    IF req.fn = "none" THEN StrayChunks
    ELSE LET core == ResponseCore(req)
             rtu == WithCRC(core)
             decoded == WithLRC(core)
         IN  {rtu, decoded, Damaged(rtu), Damaged(decoded),
              WithLRC(Readdressed(core)), WithLRC(Recoded(core)),
              WithCRC(CutShort(core)), <<>>}

\* Every request the callers can make, and the chunks that can follow each.
Requests ==
    {NoRequest}
    \cup {Request("FC2", c, a, d, n, <<>>) :
             c \in {1} \cup {DefaultCode(x, 2) : x \in CodeArgs},
             a \in Addrs, d \in DataAddrs, n \in BitCounts}
    \cup {Request("FC4", c, a, d, n, <<>>) :
             c \in {3} \cup {DefaultCode(x, 4) : x \in CodeArgs},
             a \in Addrs, d \in DataAddrs, n \in RegCounts}
    \cup {Request("FC5", 5, a, d, CoilWord(st), <<>>) :
             a \in Addrs, d \in DataAddrs, st \in CoilStates}
    \cup {Request("FC6", 6, a, d, v, <<>>) :
             a \in Addrs, d \in DataAddrs, v \in RegWords}
    \cup {Request("FC16", 16, a, d, Len(arr), arr) :
             a \in Addrs, d \in DataAddrs, arr \in RegArrays}

AnswerTable == {<<req, Answers(req)>> : req \in Requests}

Chunks(req) == (CHOOSE row \in AnswerTable : row[1] = req)[2]

Tally(count, made, isError) ==
    count + Cardinality({i \in 1..Len(made) :
                            /\ made[i].cont = issued
                            /\ (made[i].err # "") = isError})

PortData ==
    /\ received < MaxChunks
    /\ \E buf \in Chunks(request) :
        LET h == OnData(buf)
        IN  /\ chunk' = buf
            /\ data' = h.data
            /\ outcome' = h.outcome
            /\ delivered' = h.calls
            /\ errors' = Tally(errors, h.calls, TRUE)
            /\ results' = Tally(results, h.calls, FALSE)
            /\ nextAddress' = IF h.clear THEN Null ELSE nextAddress
            /\ nextCode' = IF h.clear THEN Null ELSE nextCode
            /\ next' = IF h.clear THEN Null ELSE next
    /\ received' = received + 1
    /\ UNCHANGED <<ascii, nextLength, written, request, issued>>
    /\ UNCHANGED portVars

\* The core bytes a request carries.
RequestCore(req) ==
    IF req.fn = "FC16" THEN CoreFC16(req.unit, req.start, req.values)
    ELSE Core6(req.unit, req.fc, req.start, req.count)

----------------------------------------------------------------------------
\* The buffered ASCII port: hex transcoding.

\* The characters ':', '\r', '\n' and the upper-case hexadecimal digits.
Colon == 58
CarriageReturn == 13
LineFeed == 10

HexCharDecimal(d) == 48 + d

HexChar(d) == IF d < 10 THEN 48 + d ELSE 55 + d

\* The value of a hexadecimal digit, either case; -1 for any other character.
Unhex(c) ==
    IF c >= 48 /\ c <= 57 THEN c - 48
    ELSE IF c >= 65 /\ c <= 70 THEN c - 55
    ELSE IF c >= 97 /\ c <= 102 THEN c - 87
    ELSE -1

\* buf.toString('hex', 0, buf.length).toUpperCase().
HexString(buf) ==
    [i \in 1..(2 * Len(buf)) |->
        IF i % 2 = 1 THEN HexChar(buf[(i + 1) \div 2] \div 16)
        ELSE HexChar(buf[i \div 2] % 16)]

\* asciiEncodeRequestBuffer: ':' at 0, the hex digits from 1, '\r' and '\n'
\* in the last two places of a buffer of buf.length * 2 + 3 bytes.
AsciiEncodeRequestBuffer(buf) ==
    <<Colon>> \o HexString(buf) \o <<CarriageReturn, LineFeed>>

\* calculateLrc: the LRC over all bytes but the last.
CalculateLrc(buf) ==
    LET lrc == LRCSum(buf, 0, Len(buf) - 1)
    IN  (Xor(lrc, 255) + 1) % 256

\* new Buffer((bufAscii.length - 3) / 2): the size is truncated to an integer.
DecodedLength(bufAscii) == (Len(bufAscii) - 3) \div 2

\* The iterations of "for (i = 0; i < (bufAscii.length - 3) / 2; i++)".
DecodeSteps(bufAscii) == (Len(bufAscii) - 2) \div 2

\* The two characters iteration i reads are not both hexadecimal digits.
BadPair(bufAscii, i) ==
    Unhex(bufAscii[2 * i + 2]) < 0 \/ Unhex(bufAscii[2 * i + 3]) < 0

HasBadPair(bufAscii) ==
    \E i \in 0..(DecodeSteps(bufAscii) - 1) : BadPair(bufAscii, i)

\* What a byte of the new Buffer holds when the hex write stored nothing:
\* zero where buffers are allocated zero-filled, otherwise what the memory
\* held before.
FillBytes == {0, 1}

PairValue(bufAscii, i, fill) ==
    IF BadPair(bufAscii, i) THEN fill
    ELSE 16 * Unhex(bufAscii[2 * i + 2]) + Unhex(bufAscii[2 * i + 3])

DecodeWith(bufAscii, fill) ==
    [k \in 1..DecodedLength(bufAscii) |-> PairValue(bufAscii, k - 1, fill)]

\* bufDecoded.write(pair, i, 1, 'hex') of a pair that is not hexadecimal
\* throws "Invalid hex string" on some runtimes and stores nothing on the
\* others.
HexWrites == {"throws", "skips"}

\* asciiDecodeResponseBuffer.  The delimiters are skipped, not looked at.
AsciiDecodeResponseBuffer(bufAscii, runtime) ==
    IF HasBadPair(bufAscii)
    THEN IF runtime = "throws"
         THEN {[threw |-> TRUE, buf |-> <<>>]}
         ELSE {[threw |-> FALSE, buf |-> DecodeWith(bufAscii, fill)] :
                  fill \in FillBytes}
    ELSE {[threw |-> FALSE, buf |-> DecodeWith(bufAscii, 0)]}

\* checkData: unit, command and LRC of a decoded buffer.
CheckDataUnitOnly(id, cmd, buf) ==
    /\ ByteAt(buf, 0) = id
    /\ ByteAt(buf, Len(buf) - 1) = CalculateLrc(buf)

CheckData(id, cmd, buf) ==
    /\ ByteAt(buf, 0) = id
    /\ ByteAt(buf, 1) = cmd
    /\ ByteAt(buf, Len(buf) - 1) = CalculateLrc(buf)

----------------------------------------------------------------------------
\* AsciiBufferedPort.prototype.write.

PortLengthCeiling(cmd, buf) ==
    LET count == ReadUInt16BE(buf, 4)
    IN  IF cmd = 1 \/ cmd = 2 THEN 2 * (3 + (count + 6) \div 8 + 1) + 3
        ELSE IF cmd = 3 \/ cmd = 4 THEN (3 + 2 * count + 2) * 2 + 1
        ELSE IF cmd = 5 \/ cmd = 6 \/ cmd = 16 THEN (6 + 2) * 2 + 1
        ELSE 0

PortLengthBitReadDefault(cmd, buf) ==
    (3 + ParseIntBytes(ReadUInt16BE(buf, 4)) + 2) * 2 + 1

\* The switch on this._cmd: the expected length of the answer on the wire,
\* from data.readUInt16BE(4) for the read requests.
PortLength(cmd, buf) ==
    LET count == ReadUInt16BE(buf, 4)
    IN  IF cmd = 1 \/ cmd = 2 THEN (3 + ParseIntBytes(count) + 2) * 2 + 1
        ELSE IF cmd = 3 \/ cmd = 4 THEN (3 + 2 * count + 2) * 2 + 1
        ELSE IF cmd = 5 \/ cmd = 6 \/ cmd = 16 THEN (6 + 2) * 2 + 1
        ELSE 0

\* The buffer the engine hands to the port for a request: the core and the
\* checksum writeFCn adds to it.
RawFrame(mode, req) ==
    LET core == RequestCore(req)
    IN  AddChecksum(mode, NewBuffer(RequestBufferSize(mode, Len(core)), core),
                    Len(core))

NoScan ==
    [ran |-> FALSE, threw |-> FALSE, buf |-> <<>>, looked |-> {},
     hits |-> <<>>, cut |-> 0, emits |-> <<>>]

\* What the serial line delivers after a request: the slave's answer as an
\* ASCII frame, alone, after line noise, twice, hit by noise in one
\* character and sent again, with another function code, or with a wrong
\* LRC.
Noise == <<0, 255>>

AnswerFrame(req) == AsciiEncodeRequestBuffer(WithLRC(ResponseCore(req)))

\* A character of the third byte's pair replaced by one that is no digit.
Smudged(frame) == [frame EXCEPT ![6] = 71]

Streams(req) ==
    LET core == ResponseCore(req)
        frame == AnswerFrame(req)
    IN  {frame,
         Noise \o frame,
         frame \o frame,
         Smudged(frame) \o frame,
         AsciiEncodeRequestBuffer(WithLRC(Recoded(core))) \o frame,
         AsciiEncodeRequestBuffer(Damaged(WithLRC(core)))}

\* The requests written through the port: bit reads, a bit read sent with a
\* function code the port does not know, a register read and a coil write.
PortBitCounts == {1, 8, 9, 16}

PortRequests ==
    {Request("FC2", 1, 1, 1, n, <<>>) : n \in PortBitCounts}
    \cup {Request("FC2", 7, 1, 1, 8, <<>>),
          Request("FC4", 3, 1, 1, 1, <<>>),
          Request("FC5", 5, 1, 1, CoilWord(TRUE), <<>>)}

StreamTable == {<<req, Streams(req)>> : req \in PortRequests}

StreamsOf(req) == (CHOOSE row \in StreamTable : row[1] = req)[2]

\* The sizes of the next chunk: one byte, or all that is left.
ChunkSizes(left) == {1, left}

Chunking(before, size, left) ==
    IF before = "none"
    THEN IF size = left THEN "whole" ELSE "bytes"
    ELSE IF before = "bytes" /\ size = 1 THEN "bytes"
    ELSE "mixed"

AsciiBufferedPortWrite ==
    /\ pos = Len(stream)
    /\ \E req \in PortRequests :
        LET sent == RawFrame(ascii, req)
        IN  /\ ~sent.threw
            /\ Len(sent.buf) >= 5
            /\ portId' = sent.buf[1]
            /\ portCmd' = sent.buf[2]
            /\ portLength' = PortLength(sent.buf[2], sent.buf)
            /\ raw' = sent.buf
            /\ encoded' = AsciiEncodeRequestBuffer(sent.buf)
            /\ asked' = req
            /\ \E line \in StreamsOf(req) :
                /\ lineBytes + Len(line) <= MaxLineBytes
                /\ stream' = line
                /\ lineBytes' = lineBytes + Len(line)
    /\ pos' = 0
    /\ chunking' = "none"
    /\ leftover' = portBuffer
    /\ emitted' = <<>>
    /\ scan' = NoScan
    /\ UNCHANGED <<portBuffer, hexWrite>>
    /\ UNCHANGED engineVars

----------------------------------------------------------------------------
\* The client 'data' handler of AsciiBufferedPort.

\* The loop over the windows of the buffer, from position i on: the
\* positions it looks at, the positions where it finds an answer, the frames
\* it emits and the value of i it ends with.
RECURSIVE ScanLoop(_, _, _, _, _)
ScanLoop(buf, i, length, id, cmd) ==
    IF ~(i < Len(buf) - length + 1)
    THEN {[NoScan EXCEPT !.ran = TRUE, !.buf = buf, !.cut = i]}
    ELSE LET window == Slice(buf, i, i + length)
             decoded == AsciiDecodeResponseBuffer(window, hexWrite)
             answers == {d \in decoded : ~d.threw /\ CheckData(id, cmd, d.buf)}
             others == {d \in decoded : ~d.threw /\ ~CheckData(id, cmd, d.buf)}
             looked(rest) == [rest EXCEPT !.looked = @ \cup {i}]
         IN  IF Len(window) # length
             THEN ScanLoop(buf, i + 1, length, id, cmd)
             ELSE (IF \E d \in decoded : d.threw
                   THEN {[NoScan EXCEPT !.ran = TRUE, !.buf = buf,
                                        !.threw = TRUE, !.cut = i,
                                        !.looked = {i}]}
                   ELSE {})
                  \cup
                  (IF others # {}
                   THEN {looked(rest) :
                            rest \in ScanLoop(buf, i + 1, length, id, cmd)}
                   ELSE {})
                  \cup
                  (IF answers # {}
                   THEN {[looked(rest) EXCEPT !.hits = <<i>> \o @,
                                              !.emits = <<d.buf>> \o @] :
                            d \in answers,
                            rest \in ScanLoop(buf, i + length + 1, length,
                                              id, cmd)}
                   ELSE {})

\* The handler on the buffer with the new data appended.
OnClientData(buf) ==
    IF Len(buf) < 6 \/ portLength < 6
    THEN {[NoScan EXCEPT !.buf = buf]}
    ELSE ScanLoop(buf, 0, portLength, portId, portCmd)

CutBufferAlways(done) == <<>>

\* "if (i) modbus._buffer = modbus._buffer.slice(i)"; not reached when the
\* decoding threw.
CutBuffer(done) ==
    IF done.ran /\ ~done.threw /\ done.cut # 0
    THEN Slice(done.buf, done.cut, Len(done.buf))
    ELSE done.buf

ClientData ==
    /\ pos < Len(stream)
    /\ \E size \in ChunkSizes(Len(stream) - pos) :
        /\ \E done \in OnClientData(
                         portBuffer \o SubSeq(stream, pos + 1, pos + size)) :
            /\ scan' = done
            /\ emitted' = emitted \o done.emits
            /\ portBuffer' = CutBuffer(done)
        /\ pos' = pos + size
        /\ chunking' = Chunking(chunking, size, Len(stream) - pos)
    /\ UNCHANGED <<portId, portCmd, portLength, raw, encoded, asked, stream,
                   leftover, lineBytes, hexWrite>>
    /\ UNCHANGED engineVars

----------------------------------------------------------------------------

\* new ModbusRTU(port).
Constructed ==
    /\ ascii \in Modes
    /\ nextAddress = Null
    /\ nextCode = Null
    /\ nextLength = 0
    /\ next = Null
    /\ written = <<>>
    /\ request = NoRequest
    /\ errors = 0
    /\ results = 0
    /\ delivered = <<>>
    /\ chunk = <<>>
    /\ data = <<>>
    /\ outcome = "constructed"
    /\ issued = 0
    /\ received = 0

\* new AsciiBufferedPort(path, options); the line is quiet.
PortConstructed ==
    /\ portBuffer = <<>>
    /\ portId = 0
    /\ portCmd = 0
    /\ portLength = 0
    /\ raw = <<>>
    /\ encoded = <<>>
    /\ asked = NoRequest
    /\ stream = <<>>
    /\ pos = 0
    /\ chunking = "none"
    /\ leftover = <<>>
    /\ emitted = <<>>
    /\ scan = NoScan
    /\ lineBytes = 0

\* The engine over a port that hands it whole buffers.
Init == Constructed /\ PortConstructed /\ hexWrite = "skips"

Next ==
    \/ WriteFC1
    \/ WriteFC2
    \/ WriteFC3
    \/ WriteFC4
    \/ WriteFC5
    \/ WriteFC6
    \/ WriteFC16
    \/ PortData

Spec == Init /\ [][Next]_vars

\* The buffered ASCII port between the engine's requests and the serial
\* line.
PortInit ==
    /\ Constructed
    /\ ascii = "undefined"
    /\ PortConstructed
    /\ hexWrite \in HexWrites

PortNext ==
    \/ AsciiBufferedPortWrite
    \/ ClientData

PortSpec == PortInit /\ [][PortNext]_vars

----------------------------------------------------------------------------
\* Properties.

\* The step is a writeFCn call / a 'data' event.
IssueStep == issued' = issued + 1
DataStep == received' = received + 1

Pending == next # Null

\* The buffer has the expected length, unit address and function code of
\* the pending request.
Matches(buf) ==
    /\ Len(buf) = nextLength
    /\ Len(buf) >= 2
    /\ buf[1] = nextAddress
    /\ buf[2] = nextCode

\* The trailing checksum of a frame agrees with the one recomputed over the
\* bytes before it: CRC16, little endian, over len - 2 bytes in binary mode;
\* LRC over len - 1 bytes in ASCII mode.
ChecksumAgrees(mode, buf) ==
    IF mode = "false"
    THEN LET crc == CRC16(buf, Len(buf) - 2)
         IN  buf[Len(buf) - 1] = Lo(crc) /\ buf[Len(buf)] = Hi(crc)
    ELSE buf[Len(buf)] = LRC(buf, Len(buf) - 1)

ErrorCall(cont, err) == [cont |-> cont, err |-> err, res |-> NoResult]

\* C1: a request issued while another awaits its response is rejected and
\* leaves the pending transaction's expected address, function code, length
\* and continuation as they were.
C1_FailFast == [][(Pending /\ IssueStep) => UNCHANGED engine]_vars

\* C2: while a request is pending, a chunk of the wrong length, or with the
\* wrong unit address in byte 0, or the wrong function code in byte 1, is
\* never decoded: the step delivers no result to the continuation.
C2_GatedDecode ==
    [][(DataStep /\ Pending /\ ~Matches(chunk'))
        => (/\ results' = results
            /\ \A i \in 1..Len(delivered') : delivered'[i].err # "")]_vars

C2_Witness ==
    /\ outcome = "identity"
    /\ Len(delivered) = 1
    /\ delivered[1].err = "Unexpected data error"
    /\ chunk[2] # request.fc

\* C3: after a chunk is rejected for its length or for its address or
\* function code, the engine is Idle: expected address, expected function
\* code and continuation are cleared.
C3_RejectionClears == outcome \in {"length", "identity"} => Idle

\* C4: the continuation of a request is invoked at most once, with a result
\* or with an error.
C4_AtMostOnce == errors + results <= 1

\* C5: a chunk of the expected length, address and function code whose
\* trailing checksum disagrees with the recomputed one is reported as a
\* checksum error: the continuation is called exactly once, with that error
\* and no result, and the engine is Idle afterwards.
C5_ChecksumError ==
    [][(DataStep /\ Pending /\ Matches(chunk')
            /\ ~ChecksumAgrees(ascii, chunk'))
        => (/\ delivered' = <<ErrorCall(next, IF ascii = "false"
                                             THEN "CRC error"
                                             ELSE "LRC error")>>
            /\ errors' = errors + 1
            /\ results' = results
            /\ Idle')]_vars

C5_Witness ==
    /\ outcome = "checksum"
    /\ ascii = "false"
    /\ Len(delivered) = 1
    /\ delivered[1].err = "CRC error"
    /\ Idle

\* C6: the frame handed to the port is the core followed by the checksum of
\* the framing mode: CRC16, low byte first, in binary mode (core + 2 bytes),
\* LRC in ASCII mode (core + 1 byte).
C6_FrameChecksum ==
    request.fn # "none"
        => /\ ascii = "false" => written = WithCRC(RequestCore(request))
           /\ ascii = "true" => written = WithLRC(RequestCore(request))

\* C7: in binary mode, a read-registers request (FC 3 or 4) for n registers
\* followed by the well-formed response [address, code, 2n, n big-endian
\* values, CRC16] in one chunk delivers exactly the n values, in order, once,
\* and leaves the engine Idle.
C7_ReadRegisters ==
    [][(/\ DataStep /\ Pending /\ ascii = "false"
        /\ request.fn = "FC4" /\ request.fc \in {3, 4}
        /\ chunk' = WithCRC(ResponseCore(request)))
        => (/\ Len(delivered') = 1
            /\ delivered'[1].cont = next
            /\ delivered'[1].err = ""
            /\ delivered'[1].res.regs
                   = [i \in 1..request.count |-> RegValue(i)]
            /\ results' = 1
            /\ errors' = 0
            /\ Idle')]_vars

\* C8: in binary mode the expected response length recorded by a request is
\* 3 + ceil(bitCount / 8) + 2 for FC 1/2, 3 + 2 * registerCount + 2 for
\* FC 3/4 and 8 for FC 5, 6 and 16.
C8_BinaryLength ==
    (ascii = "false" /\ request.fn # "none")
        => nextLength =
              IF request.fn = "FC2" THEN 3 + ((request.count + 7) \div 8) + 2
              ELSE IF request.fn = "FC4" THEN 3 + 2 * request.count + 2
              ELSE 8

\* C9 as stated: decoding a FC 1/2 response yields exactly one boolean per
\* requested bit, least significant bit of each payload byte first, and the
\* raw payload bytes.
BitsDecoded ==
    /\ outcome = "decoded"
    /\ Len(delivered) = 1
    /\ delivered[1].res.shape = "bits"

BitOf(buf, k) == (ByteAt(buf, 3 + (k - 1) \div 8) \div (2 ^ ((k - 1) % 8))) % 2 = 1

C9_OnePerRequestedBit ==
    BitsDecoded
        => /\ Len(delivered[1].res.bits) = request.count
           /\ \A k \in 1..Len(delivered[1].res.bits) :
                  delivered[1].res.bits[k] = BitOf(chunk, k)
           /\ delivered[1].res.buffer = Slice(chunk, 3, 3 + chunk[3])

\* C9 as amended: decoding a FC 1/2 response yields eight booleans for every
\* payload byte the byte-count field announces, least significant bit of
\* each byte first, and the raw payload bytes; for the well-formed response
\* to a request of n bits that is 8 * ceil(n / 8) booleans, the first n of
\* which are the requested bits.
C9_EightPerPayloadByte ==
    BitsDecoded
        => /\ Len(delivered[1].res.bits) = 8 * chunk[3]
           /\ \A k \in 1..Len(delivered[1].res.bits) :
                  delivered[1].res.bits[k] = BitOf(chunk, k)
           /\ delivered[1].res.buffer = Slice(chunk, 3, 3 + chunk[3])
           /\ chunk = WithLRC(ResponseCore(request))
                  => /\ Len(delivered[1].res.bits)
                            = 8 * ((request.count + 7) \div 8)
                     /\ Len(delivered[1].res.bits) >= request.count

C9_Witness ==
    /\ BitsDecoded
    /\ request.count = 9
    /\ chunk = WithLRC(ResponseCore(request))
    /\ Len(delivered[1].res.bits) = 16

\* C10: a chunk that passes the length, identity and checksum checks but
\* whose function code is none of 1, 2, 3, 4, 5, 6, 16 is reported to the
\* pending continuation as an error, and the engine returns to Idle.
C10_UnsupportedCode ==
    [][(/\ DataStep /\ Pending /\ Matches(chunk')
        /\ ChecksumAgrees(ascii, chunk')
        /\ nextCode \notin {1, 2, 3, 4, 5, 6, 16})
        => (/\ Len(delivered') = 1
            /\ delivered'[1].cont = next
            /\ delivered'[1].err # ""
            /\ Idle')]_vars

----------------------------------------------------------------------------
\* Properties of the buffered ASCII port.

\* The step is a client 'data' event; the bytes it delivers.
ClientStep == pos' > pos
Arrived == SubSeq(stream, pos + 1, pos')

\* The decoded answer to the request the last write carried.
Answer == WithLRC(ResponseCore(asked))

\* The window the last scan examined at position h.
Window(h) == Slice(scan.buf, h, h + portLength)

\* C11: a complete wire frame for the pending request, delivered from an
\* empty buffer in one chunk or in 1-byte chunks (or any mix), makes the
\* reassembler emit the same decoded candidate the same number of times:
\* the decoded frame, once.
C11_ChunkingIndependent ==
    (/\ asked # NoRequest
     /\ portLength >= 6
     /\ leftover = <<>>
     /\ stream = AnswerFrame(asked)
     /\ pos = Len(stream))
        => emitted = <<Answer>>

C11_Witness ==
    /\ asked # NoRequest
    /\ leftover = <<>>
    /\ stream = AnswerFrame(asked)
    /\ pos = Len(stream)
    /\ chunking = "bytes"
    /\ emitted = <<Answer>>

\* C12: decoding the ASCII encoding of a raw frame gives the frame back, and
\* the encoded form has length 2 * len + 3, starts with ':' and ends with
\* CR LF.
RoundTrips(frame) ==
    LET wire == AsciiEncodeRequestBuffer(frame)
    IN  /\ AsciiDecodeResponseBuffer(wire, hexWrite)
               = {[threw |-> FALSE, buf |-> frame]}
        /\ Len(wire) = 2 * Len(frame) + 3
        /\ wire[1] = 58
        /\ wire[Len(wire) - 1] = 13
        /\ wire[Len(wire)] = 10

C12_RoundTrip ==
    raw # <<>>
        => /\ encoded = AsciiEncodeRequestBuffer(raw)
           /\ RoundTrips(raw)
           /\ RoundTrips(Answer)

C12_Witness ==
    /\ raw # <<>>
    /\ \E i \in 1..Len(raw) : raw[i] = 255
    /\ Len(encoded) = 2 * Len(raw) + 3
    /\ AsciiDecodeResponseBuffer(encoded, hexWrite)
           = {[threw |-> FALSE, buf |-> raw]}

\* C13: the LRC computed over the covered bytes and stored after them
\* verifies on recomputation, the covered bytes and the stored LRC sum to 0
\* modulo 256, and calculateLrc and _LRC give the same value for the same
\* covered bytes.
RECURSIVE SumBytes(_)
SumBytes(bytes) ==
    IF bytes = <<>> THEN 0 ELSE bytes[1] + SumBytes(Tail(bytes))

LRCVerifies(covered) ==
    LET stored == LRCBuf(covered \o <<0>>, Len(covered))
    IN  /\ stored[Len(stored)] = LRC(stored, Len(covered))
        /\ SumBytes(stored) % 256 = 0
        /\ CalculateLrc(stored) = LRC(stored, Len(covered))
        /\ SubSeq(stored, 1, Len(covered)) = covered

\* The byte sequences at hand: the frame written, the bytes on the line,
\* the buffer and every frame emitted.
ByteSequences ==
    {raw, encoded, stream, portBuffer} \cup {emitted[k] : k \in 1..Len(emitted)}

C13_LRC == \A bytes \in ByteSequences : LRCVerifies(bytes)

C13_Witness ==
    /\ raw # <<>>
    /\ raw[Len(raw)] = LRC(raw, Len(raw) - 1)
    /\ raw[Len(raw)] = CalculateLrc(raw)
    /\ SumBytes(raw) > 256
    /\ SumBytes(raw) % 256 = 0

\* C14: the reassembler never discards a byte that could still start a
\* frame: every position the last data event dropped from the buffer was
\* examined as the start of a full window, or lies inside a window that was
\* emitted.
Examined(p) ==
    \/ p \in scan.looked
    \/ \E k \in 1..Len(scan.hits) :
           scan.hits[k] <= p /\ p < scan.hits[k] + portLength

C14_NoByteLost ==
    (scan.ran /\ ~scan.threw)
        => \A p \in 0..(Len(scan.buf) - 1) : p < scan.cut => Examined(p)

\* C15: every frame the reassembler emits is the decoding of a window of
\* the expected length of the received bytes, whose byte 0 is the unit
\* address of the last written request, whose byte 1 is its function code
\* and whose last byte is the LRC of the bytes before it.
ValidAnswer(frame) ==
    /\ Len(frame) >= 3
    /\ frame[1] = asked.unit
    /\ frame[2] = asked.fc
    /\ frame[Len(frame)] = LRC(frame, Len(frame) - 1)

C15_EmitsOnlyValid ==
    /\ Len(scan.emits) = Len(scan.hits)
    /\ \A k \in 1..Len(scan.emits) :
        /\ Len(Window(scan.hits[k])) = portLength
        /\ \E d \in AsciiDecodeResponseBuffer(Window(scan.hits[k]), hexWrite) :
               ~d.threw /\ d.buf = scan.emits[k]
        /\ ValidAnswer(scan.emits[k])
    /\ \A k \in 1..Len(emitted) : ValidAnswer(emitted[k])

C15_Witness ==
    /\ Len(scan.emits) = 1
    /\ scan.hits[1] > 0
    /\ ValidAnswer(scan.emits[1])
    /\ scan.emits[1] = DecodeWith(Window(scan.hits[1]), 0)

\* C16: garbage that contains no valid frame, followed by a complete valid
\* frame for the request, in any chunking: once the last byte has arrived
\* the frame has been emitted exactly once and nothing of the garbage has.
Garbage(req) == {Noise, Smudged(AnswerFrame(req))}

C16_GarbageTolerated ==
    (/\ asked # NoRequest
     /\ portLength >= 6
     /\ leftover = <<>>
     /\ \E junk \in Garbage(asked) : stream = junk \o AnswerFrame(asked)
     /\ pos = Len(stream))
        => emitted = <<Answer>>

\* C17: while the buffer holds fewer than 6 bytes or the expected length is
\* below 6, a data event scans nothing, emits nothing and discards nothing;
\* after a write with an unrecognized function code the expected length is
\* 0 and no frame is emitted.
C17_NoScanWhenShort ==
    [][(ClientStep /\ (Len(portBuffer) + Len(Arrived) < 6 \/ portLength < 6))
        => (/\ ~scan'.ran
            /\ emitted' = emitted
            /\ portBuffer' = portBuffer \o Arrived)]_vars

C17_UnrecognizedSilent ==
    (asked # NoRequest /\ asked.fc \notin {1, 2, 3, 4, 5, 6, 16})
        => portLength = 0 /\ emitted = <<>>

C17_NoScan == C17_NoScanWhenShort /\ []C17_UnrecognizedSilent

C17_Witness ==
    /\ asked.fc = 7
    /\ portLength = 0
    /\ pos = Len(stream)
    /\ stream = AnswerFrame(asked)
    /\ portBuffer = leftover \o stream
    /\ emitted = <<>>

\* C18 as stated: the expected wire length recorded for a bit read of
\* bitCount bits is 2 * (3 + ceil((bitCount - 1) / 8 + 1)) + 3.
C18_CeilingFormula ==
    (asked # NoRequest /\ asked.fc \in {1, 2})
        => portLength = 2 * (3 + ((asked.count - 1 + 7) \div 8 + 1)) + 3

\* C18 as amended: the expected wire length recorded for a bit read of
\* bitCount bits (bitCount >= 1) is 2 * (3 + ceil(bitCount / 8) + 1) + 3:
\* the hex digits of unit, function code, byte count, ceil(bitCount / 8)
\* payload bytes and the LRC, and the three delimiters.
C18_PayloadFormula ==
    (asked # NoRequest /\ asked.fc \in {1, 2})
        => /\ portLength = 2 * (3 + ((asked.count + 7) \div 8) + 1) + 3
           /\ portLength = Len(AnswerFrame(asked))

C18_Witness ==
    /\ asked.fc = 1
    /\ asked.count = 9
    /\ portLength = 15

\* C19: a window that has a pair that is not hexadecimal (or whose length is
\* not of the form 2n + 3) is never emitted as a frame.
C19_BadHexNotEmitted ==
    \A k \in 1..Len(scan.hits) :
        /\ Len(Window(scan.hits[k])) % 2 = 1
        /\ ~HasBadPair(Window(scan.hits[k]))

\* C20: validating a candidate's checksum leaves the candidate as the
\* transport delivered it: the bytes after the engine's data handler has
\* run are the bytes that were delivered.
C20_ValidationPure == data = chunk

\* C21: two valid frames for the pending request that arrive back to back
\* are both emitted, in stream order, whether they arrive in one chunk or in
\* several: once the last byte has arrived, both have been emitted.
C21_BothFramesEmitted ==
    (/\ asked # NoRequest
     /\ portLength >= 6
     /\ leftover = <<>>
     /\ stream = AnswerFrame(asked) \o AnswerFrame(asked)
     /\ pos = Len(stream))
        => emitted = <<Answer, Answer>>

\* The expected length the engine's writeFCn records for a request.
EngineLength(mode, req) ==
    IF req.fn = "FC2" THEN NextLengthFC2(mode, req.count)
    ELSE IF req.fn = "FC4" THEN NextLengthFC4(mode, req.count)
    ELSE IF req.fn = "FC5" THEN NextLengthFC5(mode)
    ELSE IF req.fn = "FC6" THEN NextLengthFC6(mode)
    ELSE NextLengthFC16(mode)

C23_BufferBounded ==
    [][(ClientStep /\ portLength >= 6)
        => Len(portBuffer') <= portLength - 1]_vars

\* C24: a chunk received while the engine is Idle (no request made yet, or
\* the transaction resolved and its state cleared) invokes no continuation
\* and leaves the engine Idle; a late duplicate of a response that was
\* already delivered triggers no second callback.
C24_IdleChunkSilent ==
    [][(DataStep /\ Idle)
        => (/\ delivered' = <<>>
            /\ errors' = errors
            /\ results' = results
            /\ Idle')]_vars

C24_Witness ==
    /\ Idle
    /\ received = 2
    /\ results = 1
    /\ errors = 0
    /\ delivered = <<>>
    /\ chunk = WithLRC(ResponseCore(request))
    /\ outcome = "identity"

====
